---- MODULE Spec2Model ----
(***************************************************************************)
(* Kingfisher Process: the load command, the addstep command and the       *)
(* checker worker, over the relational store (collection, collection_file, *)
(* collection_file_step), PostgreSQL row locks on the collection row, and  *)
(* the message transport.                                                  *)
(***************************************************************************)
EXTENDS Integers, Sequences, FiniteSets, Bags, TLC

\* Bound: the number of files found under PATH by one load command.
MaxFiles == 1

\* Bound: the number of files found under PATH by one load command, where
\* the load commands run alone.
MaxWalk == 2

\* Bound: the number of collections marked for deletion at a time.
MaxDeleted == 1

\* Bound: the number of collections createTransformCollection derives.
MaxTransforms == 1

Loaders == {"l1", "l2"}
Operators == {"a1"}
Workers == {"w1"}
Clis == {"e1", "e2"}
Storers == {"s1", "s2"}

\* The JSON payloads of items, each the sequence of its members as written,
\* and of packages.
Payloads == {<<"ocid", "date">>, <<"date", "ocid">>, <<"id">>}
PackagePayloads == {<<"uri">>, <<"publisher">>}

\* The kinds of normalized rows.
NormalizedKinds == {"release", "record", "compiled_release"}

NoValue == "None"
SourceIds == {"s"}
DataVersion == "2020-01-01 00:00:00"

\* default/models.py: Collection.Transforms
Transforms == {"compile-releases", "upgrade-1-0-to-1-1"}

\* addstep.py: choices of the `step` argument
StepChoices == {"check"} \cup Transforms

\* The values settings.DEFAULT_STEPS may be configured with.
DefaultStepsChoices == {<< >>, <<"check", "upgrade">>}

\* checker.py
worker_name == "checker"
consume_keys == {"loader"}

VARIABLES
    DEFAULT_STEPS,        \* settings.DEFAULT_STEPS
    PATH,                 \* the number of files walk(PATH) yields to each load
    collection,           \* table collection: row i has primary key i
    collection_file,      \* table collection_file, by primary key
    collection_file_step, \* table collection_file_step, grouped by file
    row_lock,             \* row locks held on collection rows
    clock,                \* number of timestamps the store has issued
    published,            \* the messages handed to the transport (a bag)
    loader,               \* the load commands' local state
    operator,             \* the addstep commands' local state
    worker,               \* the checker workers' local state
    cli,                  \* the end-collection-store commands' local state
    registry,             \* the registry's record of the operations so far
    data,                 \* table data: row i has primary key i
    package_data,         \* table package_data: row i has primary key i
    collection_file_item, \* table collection_file_item, by primary key
    release,              \* table release
    record,               \* table record
    compiled_release,     \* table compiled_release
    storer                \* the local state of the workers that store items

dbvars == <<collection, collection_file, collection_file_step, row_lock, clock>>
storevars == <<data, package_data, collection_file_item, release, record,
               compiled_release, storer>>
vars == <<DEFAULT_STEPS, PATH, collection, collection_file, collection_file_step,
          row_lock, clock, published, loader, operator, worker, cli, registry,
          storevars>>

----------------------------------------------------------------------------
(* Helpers *)

Range(s) == {s[i] : i \in DOMAIN s}

RECURSIVE SeqCount(_, _)
SeqCount(s, x) ==
    IF s = << >> THEN 0
    ELSE (IF Head(s) = x THEN 1 ELSE 0) + SeqCount(Tail(s), x)

----------------------------------------------------------------------------
(* PostgreSQL row-level locks on a collection row.                         *)

LockModes == {"KEY SHARE", "SHARE", "NO KEY UPDATE", "UPDATE"}

\* "SELECT FOR SHARE blocks (and is blocked by) UPDATE, but doesn't block
\* another SELECT FOR SHARE."
Conflicts(held, wanted) ==
    CASE held = "KEY SHARE"     -> wanted = "UPDATE"
      [] held = "SHARE"         -> wanted \in {"NO KEY UPDATE", "UPDATE"}
      [] held = "NO KEY UPDATE" -> wanted \in {"SHARE", "NO KEY UPDATE", "UPDATE"}
      [] held = "UPDATE"        -> TRUE

\* The processes whose uncommitted lock on collection c makes p wait when p
\* asks for `mode`.
Blockers(p, c, mode) ==
    {k.holder : k \in {k \in row_lock :
        k.holder # p /\ k.collection = c /\ Conflicts(k.mode, mode)}}

\* The only lock a load transaction takes on the collection row is the one the
\* INSERT into collection_file takes through the foreign key.
LoadLockModeForUpdate == "UPDATE"
LoadLockMode == "KEY SHARE"

\* An UPDATE of the collection row that changes no key column.
SaveLockMode == "NO KEY UPDATE"

----------------------------------------------------------------------------
(* The collection table *)

NullCollection ==
    [id |-> 0, source_id |-> NoValue, data_version |-> NoValue, sample |-> FALSE,
     transform_from_collection_id |-> 0, transform_type |-> "",
     steps |-> << >>, store_end_at |-> 0, deleted_at |-> 0]

\* Meta.constraints: unique_collection_identifiers over (source_id,
\* data_version, sample) on the rows with transform_type = ''.
unique_collection_identifiers_inverted(row) ==
    /\ row.transform_type # ""
    /\ \E i \in DOMAIN collection :
          /\ collection[i].transform_type # ""
          /\ collection[i].source_id = row.source_id
          /\ collection[i].data_version = row.data_version
          /\ collection[i].sample = row.sample
unique_collection_identifiers_open(row) ==
    /\ row.transform_type = ""
    /\ \E i \in DOMAIN collection :
          /\ collection[i].transform_type = ""
          /\ collection[i].store_end_at = 0
          /\ collection[i].source_id = row.source_id
          /\ collection[i].data_version = row.data_version
          /\ collection[i].sample = row.sample
unique_collection_identifiers_not_deleted(row) ==
    /\ row.transform_type = ""
    /\ \E i \in DOMAIN collection :
          /\ collection[i].transform_type = ""
          /\ collection[i].deleted_at = 0
          /\ collection[i].source_id = row.source_id
          /\ collection[i].data_version = row.data_version
          /\ collection[i].sample = row.sample
unique_collection_identifiers(row) ==
    /\ row.transform_type = ""
    /\ \E i \in DOMAIN collection :
          /\ collection[i].transform_type = ""
          /\ collection[i].source_id = row.source_id
          /\ collection[i].data_version = row.data_version
          /\ collection[i].sample = row.sample

\* Now(): the store's clock never repeats a value.
Now == clock + 1

\* Model.save() of an existing row writes every field of the in-memory object.
save(table, obj) == [table EXCEPT ![obj.id] = obj]

----------------------------------------------------------------------------
(* Initial state: an empty store, an empty transport, no command started.  *)

NoOptions ==
    [source |-> NoValue, sample |-> FALSE, upgrade |-> FALSE, keep_open |-> FALSE,
     collection |-> 0]

\* The arguments of a load command, PATH apart (walk(PATH) yields between one
\* and MaxFiles files). --note is given with --source, and --time is not later
\* than the files' modification times.
LoadOptions ==
    [source : SourceIds \cup {NoValue}, sample : BOOLEAN, upgrade : BOOLEAN,
     keep_open : BOOLEAN, collection : {0, 1}]

\* No command has started, over an empty store and an empty transport.
Constructed ==
    /\ DEFAULT_STEPS \in DefaultStepsChoices
    /\ collection = << >>
    /\ collection_file = << >>
    /\ collection_file_step = << >>
    /\ row_lock = {}
    /\ clock = 0
    /\ published = EmptyBag
    /\ loader = [l \in Loaders |->
          [pc |-> "start", options |-> NoOptions, collection |-> NullCollection,
           upgraded_collection |-> NullCollection, i |-> 0,
           collection_file |-> NoValue,
           exception |-> NoValue, error |-> NoValue]]
    /\ operator = [a \in Operators |->
          [pc |-> "start", step |-> NoValue, source |-> NullCollection,
           added |-> FALSE, error |-> NoValue]]
    /\ worker = [w \in Workers |-> [pc |-> "idle", delivery_tag |-> NoValue]]
    /\ cli = [e \in Clis |->
          [pc |-> "start", collection |-> NullCollection, output |-> NoValue]]
    /\ registry = [transforms |-> 0, error |-> NoValue, conflicts |-> {}]
    /\ data = << >>
    /\ package_data = << >>
    /\ collection_file_item = << >>
    /\ release = {}
    /\ record = {}
    /\ compiled_release = {}
    /\ storer = [s \in Storers |->
          [pc |-> "idle", kind |-> NoValue, item |-> NoValue, payload |-> << >>,
           package |-> << >>, interning |-> NoValue, data |-> 0,
           package_data |-> 0, retried |-> {}, error |-> NoValue]]

Init ==
    /\ PATH \in [Loaders -> 1..MaxFiles]
    /\ Constructed

\* The same, for load commands over paths of up to MaxWalk files.
RunInit ==
    /\ PATH \in [Loaders -> 1..MaxWalk]
    /\ Constructed

----------------------------------------------------------------------------
(* load: Command.handle *)

\* handle, the checks of the arguments.
handle_arguments(l) ==
    /\ loader[l].pc = "start"
    /\ \E options \in LoadOptions :
          IF \/ options.collection = 0 /\ options.source = NoValue
             \/ options.collection # 0 /\ (options.source # NoValue \/ options.sample)
          THEN loader' = [loader EXCEPT ![l].pc = "failed",
                                        ![l].error = "CommandError"]
          ELSE loader' = [loader EXCEPT ![l].pc = "create", ![l].options = options]
    /\ UNCHANGED <<DEFAULT_STEPS, PATH, storevars, cli, registry, dbvars, published, operator, worker>>

\* The fields of the Collection model, for keyword lookups.
CollectionFields ==
    {"id", "source_id", "data_version", "sample", "check_data",
     "check_older_data_with_schema_version_1_1", "transform_from_collection",
     "transform_type", "cached_releases_count", "cached_records_count",
     "cached_compiled_releases_count", "store_start_at", "store_end_at",
     "deleted_at", "steps"}

\* The keywords of Collection.objects.get in the IntegrityError handler.
ConflictLookup == {"source_id", "data_version", "sample", "force", "transform_type"}

\* The messages of the IntegrityError handler, formatted with the id of the
\* collection found.
being_deleted(id) ==
    "CommandError: A collection " \o ToString(id)
        \o " matching those arguments is being deleted"
closed(id) ==
    "CommandError: A closed collection " \o ToString(id)
        \o " matching those arguments already exists"
open(id) ==
    "CommandError: An open collection " \o ToString(id)
        \o " matching those arguments already exists. Use --collection "
        \o ToString(id) \o " to load data into it."

\* The error the IntegrityError handler ends with, `found` being the stored
\* collection with the identity asked for. A keyword of the lookup that is no
\* field of the model makes Collection.objects.get raise FieldError.
conflict_error(found) ==
    IF ~(ConflictLookup \subseteq CollectionFields) THEN "FieldError"
    ELSE IF found.deleted_at # 0 THEN being_deleted(found.id)
    ELSE IF found.store_end_at # 0 THEN closed(found.id)
    ELSE open(found.id)

\* The stored collection whose identity makes the unique constraint refuse
\* `row`.
conflicting(row) ==
    CHOOSE c \in Range(collection) :
        /\ c.transform_type = ""
        /\ c.source_id = row.source_id
        /\ c.data_version = row.data_version
        /\ c.sample = row.sample

\* The row create_master_collection inserts for the source collection.
master_row(options) ==
    [NullCollection EXCEPT !.id = Len(collection) + 1,
                           !.source_id = options.source,
                           !.data_version = DataVersion,
                           !.sample = options.sample]

\* The row create_master_collection inserts for the upgraded collection.
upgraded_row(master) ==
    [master EXCEPT !.id = master.id + 1,
                   !.transform_from_collection_id = master.id,
                   !.transform_type = "upgrade-1-0-to-1-1"]

\* create_master_collection and the handlers of its errors. With --collection
\* the open collection of that id is resolved (ValueError if there is none);
\* otherwise the source collection is inserted, which the unique constraint
\* may refuse (IntegrityError), and with it the upgraded collection when asked
\* for. `exception` is what create_master_collection raised, `error` what the
\* command ends with.
create_master_collection(l) ==
    LET options == loader[l].options
        id == options.collection
        row == master_row(options)
    IN
    /\ loader[l].pc = "create"
    /\ IF id # 0
       THEN /\ IF /\ id \in DOMAIN collection
                  /\ collection[id].store_end_at = 0
                  /\ collection[id].deleted_at = 0
               THEN loader' = [loader EXCEPT
                       ![l].pc = IF options.upgrade THEN "steps" ELSE "files",
                       ![l].collection = collection[id]]
               ELSE loader' = [loader EXCEPT ![l].pc = "failed",
                                             ![l].exception = "ValueError",
                                             ![l].error = "CommandError"]
            /\ UNCHANGED <<collection, registry>>
       ELSE IF unique_collection_identifiers(row)
       THEN /\ loader' = [loader EXCEPT
                  ![l].pc = "failed",
                  ![l].exception = "IntegrityError",
                  ![l].error = conflict_error(conflicting(row))]
            /\ registry' = [registry EXCEPT !.conflicts = @ \cup
                  {[caller |-> l, collection |-> conflicting(row)]}]
            /\ UNCHANGED collection
       ELSE IF options.upgrade
       THEN /\ collection' = collection \o <<row, upgraded_row(row)>>
            /\ loader' = [loader EXCEPT ![l].pc = "steps",
                                        ![l].collection = row,
                                        ![l].upgraded_collection = upgraded_row(row)]
            /\ UNCHANGED registry
       ELSE /\ collection' = Append(collection, row)
            /\ loader' = [loader EXCEPT ![l].pc = "files", ![l].collection = row]
            /\ UNCHANGED registry
    /\ UNCHANGED <<DEFAULT_STEPS, PATH, storevars, cli, collection_file, collection_file_step, row_lock,
                   clock, published, operator, worker>>

\* handle, with --upgrade: collection.steps = ["upgrade"]; collection.save()
set_steps(l) ==
    LET obj == [loader[l].collection EXCEPT !.steps = <<"upgrade">>]
    IN
    /\ loader[l].pc = "steps"
    /\ Blockers(l, obj.id, SaveLockMode) = {}
    /\ collection' = save(collection, obj)
    /\ loader' = [loader EXCEPT ![l].pc = "files", ![l].collection = obj]
    /\ UNCHANGED <<DEFAULT_STEPS, PATH, storevars, cli, registry, collection_file, collection_file_step, row_lock,
                   clock, published, operator, worker>>

\* The committed stage configuration of collection c, as a transaction that
\* reads the row now sees it.
visible_steps(c) == collection[c].steps

\* The CollectionFileStep rows handle attaches to a new file: one per step of
\* settings.DEFAULT_STEPS, in order.
new_file_steps(l) ==
    [k \in DOMAIN DEFAULT_STEPS |-> [name |-> DEFAULT_STEPS[k], tx |-> l]]

\* handle, the body of `with transaction.atomic()` for the file at position
\* i. Primary keys are opaque: the key of the i-th file a command stores is
\* written <<command, i>>, and so is its file name. The form is valid and the CollectionFile and its CollectionFileStep rows
\* are inserted (uncommitted), or the form is invalid and CommandError is
\* raised, which rolls the transaction back: nothing was written in it, and
\* the exception leaves handle, so that the command ends (AfterCommandError).
AfterCommandErrorIgnored == "close"
AfterCommandError == "failed"

store_file(l) ==
    LET c == loader[l].collection.id
        id == <<l, loader[l].i + 1>>
    IN
    /\ loader[l].pc = "files"
    /\ \E is_valid \in BOOLEAN :
          IF is_valid
          THEN /\ Blockers(l, c, LoadLockMode) = {}
               /\ collection_file' = collection_file @@ (id :>
                     [collection |-> c, filename |-> id, errors |-> << >>,
                      store_end_at |-> 0, tx |-> l, steps_seen |-> visible_steps(c)])
               /\ collection_file_step' = collection_file_step @@ (id :> new_file_steps(l))
               /\ row_lock' = row_lock \cup
                     {[holder |-> l, collection |-> c, mode |-> LoadLockMode]}
               /\ loader' = [loader EXCEPT ![l].pc = "transaction",
                                           ![l].collection_file = id]
          ELSE /\ loader' = [loader EXCEPT ![l].pc = AfterCommandError,
                                           ![l].error = "CommandError"]
               /\ UNCHANGED <<collection_file, collection_file_step, row_lock>>
    /\ UNCHANGED <<DEFAULT_STEPS, PATH, storevars, cli, registry, collection, clock, published, operator, worker>>

\* The rows of transaction tx, committed.
commit_files(tx) ==
    [f \in DOMAIN collection_file |->
        IF collection_file[f].tx = tx
        THEN [collection_file[f] EXCEPT !.tx = ""] ELSE collection_file[f]]

commit_steps(tx) ==
    [f \in DOMAIN collection_file_step |->
        [k \in DOMAIN collection_file_step[f] |->
            IF collection_file_step[f][k].tx = tx
            THEN [collection_file_step[f][k] EXCEPT !.tx = ""]
            ELSE collection_file_step[f][k]]]

\* COMMIT releases the row locks of the transaction.
release_locks_never(tx) == row_lock
release_locks(tx) == {k \in row_lock : k.holder # tx}

\* handle, the end of `with transaction.atomic()`: COMMIT.
commit_file(l) ==
    /\ loader[l].pc = "transaction"
    /\ collection_file' = commit_files(l)
    /\ collection_file_step' = commit_steps(l)
    /\ row_lock' = release_locks(l)
    /\ loader' = [loader EXCEPT ![l].pc = "publish"]
    /\ UNCHANGED <<DEFAULT_STEPS, PATH, storevars, cli, registry, collection, clock, published, operator, worker>>

\* A message as the transport holds it.
message(routing_key, body) ==
    [routing_key |-> routing_key, body |-> body, state |-> "ready",
     consumer |-> NoValue]

\* BaseWorker.publish: the message is routed by the publisher's worker name.
publish_twice(routing_key, body) ==
    published (+) SetToBag({message(routing_key, body)})
              (+) SetToBag({message(routing_key, body)})
publish(routing_key, body) ==
    published (+) SetToBag({message(routing_key, body)})

\* The position in handle at which self.publish is called: after the `with
\* transaction.atomic()` block, not inside it.
PublishInTransaction == "transaction"
PublishPosition == "publish"

\* handle: self.publish(json_dumps({"collection_file_id": collection_file.id})),
\* then the next file of walk(PATH), if there is one.
publish_file(l) ==
    /\ loader[l].pc = PublishPosition
    /\ published' = publish("loader",
          [collection_file_id |-> loader[l].collection_file, step |-> NoValue])
    /\ loader' = [loader EXCEPT
          ![l].i = @ + 1,
          ![l].pc = IF loader[l].i + 1 < PATH[l] THEN "files" ELSE "close"]
    /\ UNCHANGED <<DEFAULT_STEPS, PATH, storevars, cli, registry, dbvars, operator, worker>>

\* handle: collection.store_end_at = Now(); collection.save()
close_collection(l) ==
    LET obj == [loader[l].collection EXCEPT !.store_end_at = Now]
    IN
    /\ loader[l].pc = "close"
    /\ Blockers(l, obj.id, SaveLockMode) = {}
    /\ collection' = save(collection, obj)
    /\ clock' = Now
    /\ loader' = [loader EXCEPT
          ![l].collection = obj,
          ![l].pc = IF loader[l].upgraded_collection.id # 0
                    THEN "close_upgraded" ELSE "done"]
    /\ UNCHANGED <<DEFAULT_STEPS, PATH, storevars, cli, registry, collection_file, collection_file_step, row_lock,
                   published, operator, worker>>

\* handle: upgraded_collection.store_end_at = Now(); upgraded_collection.save()
close_upgraded_collection(l) ==
    LET obj == [loader[l].upgraded_collection EXCEPT !.store_end_at = Now]
    IN
    /\ loader[l].pc = "close_upgraded"
    /\ Blockers(l, obj.id, SaveLockMode) = {}
    /\ collection' = save(collection, obj)
    /\ clock' = Now
    /\ loader' = [loader EXCEPT ![l].upgraded_collection = obj, ![l].pc = "done"]
    /\ UNCHANGED <<DEFAULT_STEPS, PATH, storevars, cli, registry, collection_file, collection_file_step, row_lock,
                   published, operator, worker>>

load(l) ==
    \/ handle_arguments(l)
    \/ create_master_collection(l)
    \/ set_steps(l)
    \/ store_file(l)
    \/ commit_file(l)
    \/ publish_file(l)
    \/ close_collection(l)
    \/ close_upgraded_collection(l)

----------------------------------------------------------------------------
(* addstep: Command.handle *)

\* handle: source = Collection.objects.get(pk=collection_id), or CommandError
\* when the collection does not exist.
get_source(a) ==
    /\ operator[a].pc = "start"
    /\ \E collection_id \in {1}, step \in StepChoices :
          IF collection_id \in DOMAIN collection
          THEN operator' = [operator EXCEPT ![a].pc = "transaction",
                                            ![a].step = step,
                                            ![a].source = collection[collection_id]]
          ELSE operator' = [operator EXCEPT ![a].pc = "failed",
                                            ![a].error = "CommandError"]
    /\ UNCHANGED <<DEFAULT_STEPS, PATH, storevars, cli, registry, dbvars, published, loader, worker>>

\* source.add_step(step): whether the step is one of the collection's steps
\* already.
active_never(source, step) == FALSE
active(source, step) == step \in Range(source.steps)

\* source.add_step(step), first statement of the transaction: UPDATE the
\* collection's stage configuration. The row stays locked, and the new
\* configuration invisible to others, until the transaction commits. A step
\* that is already configured is not added again.
add_step_update(a) ==
    LET source == operator[a].source
        step == operator[a].step
    IN
    /\ operator[a].pc = "transaction"
    /\ IF active(source, step)
       THEN /\ operator' = [operator EXCEPT ![a].pc = "done"]
            /\ UNCHANGED row_lock
       ELSE /\ Blockers(a, source.id, SaveLockMode) = {}
            /\ row_lock' = row_lock \cup
                  {[holder |-> a, collection |-> source.id, mode |-> SaveLockMode]}
            /\ operator' = [operator EXCEPT ![a].pc = "select",
                                            ![a].added = TRUE,
                                            ![a].source.steps = Append(@, step)]
    /\ UNCHANGED <<DEFAULT_STEPS, PATH, storevars, cli, registry, collection, collection_file, collection_file_step,
                   clock, published, loader, worker>>

\* The files of collection c that a SELECT in transaction tx returns: the
\* committed ones and the transaction's own.
select_files(tx, c) ==
    {f \in DOMAIN collection_file :
        collection_file[f].collection = c /\ collection_file[f].tx \in {"", tx}}

\* One message per file of `files`, for `step`.
publish_all(routing_key, files, step) ==
    published (+) SetToBag(
        {message(routing_key, [collection_file_id |-> f, step |-> step]) : f \in files})

\* source.add_step(step), second statement of the transaction: SELECT the
\* collection's files and enqueue the new step for each of them.
add_step_select(a) ==
    LET source == operator[a].source
        step == operator[a].step
        files == select_files(a, source.id)
    IN
    /\ operator[a].pc = "select"
    /\ collection_file_step' =
          [f \in DOMAIN collection_file_step |->
              IF f \in files
              THEN Append(collection_file_step[f], [name |-> step, tx |-> a])
              ELSE collection_file_step[f]]
    /\ published' = publish_all("addstep", files, step)
    /\ operator' = [operator EXCEPT ![a].pc = "commit"]
    /\ UNCHANGED <<DEFAULT_STEPS, PATH, storevars, cli, registry, collection, collection_file, row_lock, clock,
                   loader, worker>>

\* handle, the end of `with transaction.atomic()`: COMMIT.
add_step_commit(a) ==
    /\ operator[a].pc = "commit"
    /\ collection' = [collection EXCEPT
          ![operator[a].source.id].steps = operator[a].source.steps]
    /\ collection_file_step' = commit_steps(a)
    /\ row_lock' = release_locks(a)
    /\ operator' = [operator EXCEPT ![a].pc = "done"]
    /\ UNCHANGED <<DEFAULT_STEPS, PATH, storevars, cli, registry, collection_file, clock, published, loader, worker>>

addstep(a) ==
    \/ get_source(a)
    \/ add_step_update(a)
    \/ add_step_select(a)
    \/ add_step_commit(a)

\* The operator runs the addstep command once more, after it has returned.
addstep_again(a) ==
    /\ operator[a].pc = "done"
    /\ operator' = [operator EXCEPT ![a] =
          [pc |-> "start", step |-> NoValue, source |-> NullCollection,
           added |-> FALSE, error |-> NoValue]]
    /\ UNCHANGED <<DEFAULT_STEPS, PATH, storevars, cli, registry, dbvars, published,
                   loader, worker>>

----------------------------------------------------------------------------
(* checker: Command.process, under the transport's delivery *)

\* The messages the transport may deliver to the checker.
ready ==
    {m \in BagToSet(published) :
        m.state = "ready" /\ m.routing_key \in consume_keys}

\* The transport's record of message m moving to `state` under `consumer`.
deliver(m, state, consumer) ==
    (published (-) SetToBag({m}))
        (+) SetToBag({[m EXCEPT !.state = state, !.consumer = consumer]})

\* The transport delivers a ready message to an idle consumer; the message is
\* unacknowledged from then on. delivery_tag stands for the message delivered.
consume(w) ==
    /\ worker[w].pc = "idle"
    /\ \E m \in ready :
          /\ published' = deliver(m, "unacked", w)
          /\ worker' = [worker EXCEPT ![w].pc = "received",
                                      ![w].delivery_tag = m.body]
    /\ UNCHANGED <<DEFAULT_STEPS, PATH, storevars, cli, registry, dbvars, loader, operator>>

\* The message worker w holds unacknowledged.
unacked(w) ==
    {m \in BagToSet(published) : m.state = "unacked" /\ m.consumer = w}

\* process: json.loads(body); self.publish(json.dumps({"dataset_id": 1}))
process_publish(w) ==
    /\ worker[w].pc = "received"
    /\ published' = publish(worker_name, [dataset_id |-> 1])
    /\ worker' = [worker EXCEPT ![w].pc = "published"]
    /\ UNCHANGED <<DEFAULT_STEPS, PATH, storevars, cli, registry, dbvars, loader, operator>>

\* The position in process at which channel.basic_ack is called.
AckBeforePublish == "received"
AckPosition == "published"

\* process: channel.basic_ack(delivery_tag=method.delivery_tag)
process_ack(w) ==
    /\ worker[w].pc = AckPosition
    /\ \E m \in unacked(w) : published' = deliver(m, "acked", w)
    /\ worker' = [worker EXCEPT ![w].pc = "idle"]
    /\ UNCHANGED <<DEFAULT_STEPS, PATH, storevars, cli, registry, dbvars, loader, operator>>

\* process: a statement of the try block raises; the handler logs the
\* exception and calls sys.exit(). delivery_tag keeps the message it failed on.
process_except(w) ==
    /\ worker[w].pc \in {"received", "published"}
    /\ worker' = [worker EXCEPT ![w].pc = "exited"]
    /\ UNCHANGED <<DEFAULT_STEPS, PATH, storevars, cli, registry, dbvars, published, loader, operator>>

\* The transport returns to the queue a message whose consumer is gone
\* without acknowledging it.
redeliver(w) ==
    /\ worker[w].pc = "exited"
    /\ \E m \in unacked(w) : published' = deliver(m, "ready", NoValue)
    /\ UNCHANGED <<DEFAULT_STEPS, PATH, storevars, cli, registry, dbvars, loader, operator, worker>>

checker(w) ==
    \/ consume(w)
    \/ process_publish(w)
    \/ process_ack(w)
    \/ process_except(w)

----------------------------------------------------------------------------
(* The registry's operations on stored collections *)

\* The name under which the registry's own statements hold row locks.
Registry == "registry"

\* The stored collections marked for deletion.
deleted == {c \in DOMAIN collection : collection[c].deleted_at # 0}

\* The collections the table holds: a purged row leaves its primary key
\* unused for good.
stored == {c \in DOMAIN collection : collection[c].id = c}

\* softDelete: UPDATE collection SET deleted_at = now WHERE id = c.
soft_delete(c) ==
    /\ c \in stored
    /\ collection[c].deleted_at = 0
    /\ Cardinality(deleted) < MaxDeleted
    /\ Blockers(Registry, c, SaveLockMode) = {}
    /\ collection' = [collection EXCEPT ![c].deleted_at = Now]
    /\ clock' = Now
    /\ UNCHANGED <<DEFAULT_STEPS, PATH, storevars, cli, registry, collection_file, collection_file_step,
                   row_lock, published, loader, operator, worker>>

\* Collection.clean_fields: ValidationError is raised when exactly one of
\* transform_from_collection_id and transform_type is set.
clean_fields_unchecked(obj) == FALSE
clean_fields(obj) ==
    (obj.transform_from_collection_id # 0) # (obj.transform_type # "")

\* The row createTransformCollection derives from the source collection of id
\* `source` (0 when none is given) for `transform_type`.
transform_row(source, transform_type) ==
    [(IF source \in DOMAIN collection THEN collection[source] ELSE NullCollection)
        EXCEPT !.id = Len(collection) + 1,
               !.transform_from_collection_id = source,
               !.transform_type = transform_type,
               !.steps = << >>,
               !.store_end_at = 0,
               !.deleted_at = 0]

\* The live collections derived from `source` by `transform_type`.
live_transforms_unseen(source, transform_type) == {}
live_transforms(source, transform_type) ==
    {c \in DOMAIN collection :
        /\ collection[c].transform_from_collection_id = source
        /\ collection[c].transform_type = transform_type
        /\ collection[c].deleted_at = 0}

\* createTransformCollection(sourceCollection, transformType): the derived
\* row is validated (clean_fields), refused when the source has a live
\* collection of that transform type already, and inserted otherwise.
create_transform_collection ==
    /\ registry.transforms < MaxTransforms
    /\ \E source \in {0} \cup DOMAIN collection, transform_type \in {""} \cup Transforms :
          LET obj == transform_row(source, transform_type)
          IN  /\ source # 0 \/ transform_type # ""
              /\ IF clean_fields(obj)
                 THEN /\ registry' = [registry EXCEPT !.error = "ValidationError"]
                      /\ UNCHANGED collection
                 ELSE IF live_transforms(source, transform_type) # {}
                 THEN /\ registry' = [registry EXCEPT !.error = "Conflict"]
                      /\ UNCHANGED collection
                 ELSE /\ collection' = Append(collection, obj)
                      /\ registry' = [registry EXCEPT !.transforms = @ + 1]
    /\ UNCHANGED <<DEFAULT_STEPS, PATH, storevars, cli, collection_file, collection_file_step,
                   row_lock, clock, published, loader, operator, worker>>

----------------------------------------------------------------------------
(* The content store: Data and PackageData, and the normalized rows *)

\* The fingerprint of a payload, written as the content it is computed over:
\* the members of the payload, whatever the order they were written in.
hash_md5(payload) == Range(payload)

\* The table of a kind of content.
table(kind) == IF kind = "data" THEN data ELSE package_data

\* SELECT id FROM <kind> WHERE hash_md5 = hash
lookup(kind, hash) ==
    {id \in DOMAIN table(kind) : table(kind)[id].hash_md5 = hash}

\* Data.Meta.constraints: unique_data_hash_md5 over (hash_md5); TRUE when the
\* insertion of a row with `hash` is refused.
unique_data_hash_md5_dropped(hash) == FALSE
unique_data_hash_md5(hash) ==
    \E id \in DOMAIN data : data[id].hash_md5 = hash

\* PackageData.Meta.constraints: unique_package_data_hash_md5 over (hash_md5).
unique_package_data_hash_md5(hash) ==
    \E id \in DOMAIN package_data : package_data[id].hash_md5 = hash

\* The content a storer is interning: the item's payload, then the package's.
content(s) ==
    IF storer[s].interning = "data" THEN storer[s].payload ELSE storer[s].package

\* intern returns the reference `id` to storer s, which goes on to the
\* package of a release or of a record, and to the normalized row after it.
intern_return(s, id) ==
    IF storer[s].interning = "data"
    THEN IF storer[s].kind = "compiled_release"
         THEN [storer EXCEPT ![s].data = id, ![s].pc = "store"]
         ELSE [storer EXCEPT ![s].data = id, ![s].interning = "package_data",
                              ![s].pc = "lookup"]
    ELSE [storer EXCEPT ![s].package_data = id, ![s].pc = "store"]

\* A worker starts to store item `number` of a committed file: the
\* CollectionFileItem row is inserted, the next number of its file.
store_item(s) ==
    /\ storer[s].pc = "idle"
    /\ \E f \in {g \in DOMAIN collection_file : collection_file[g].tx = ""},
          kind \in NormalizedKinds, payload \in Payloads,
          package \in PackagePayloads :
          LET number == 1 + Cardinality({i \in DOMAIN collection_file_item :
                               collection_file_item[i].collection_file = f})
              id == <<f, number>>
          IN  /\ kind = "compiled_release" => package = <<"uri">>
              /\ collection_file_item' = collection_file_item @@ (id :>
                    [collection_file |-> f, number |-> number])
              /\ storer' = [storer EXCEPT ![s].pc = "lookup", ![s].kind = kind,
                                          ![s].item = id, ![s].payload = payload,
                                          ![s].package = package,
                                          ![s].interning = "data"]
    /\ UNCHANGED <<DEFAULT_STEPS, PATH, dbvars, published, loader, operator, worker, cli,
                   registry, data, package_data, release, record, compiled_release>>

\* intern(kind, payload), the read: the row of the payload's fingerprint is
\* returned if there is one, and it is the re-read after a conflict too.
intern_lookup(s) ==
    LET found == lookup(storer[s].interning, hash_md5(content(s)))
    IN
    /\ storer[s].pc = "lookup"
    /\ IF found # {}
       THEN storer' = intern_return(s, CHOOSE id \in found : TRUE)
       ELSE storer' = [storer EXCEPT ![s].pc = "insert"]
    /\ UNCHANGED <<DEFAULT_STEPS, PATH, dbvars, published, loader, operator, worker, cli,
                   registry, data, package_data, collection_file_item, release,
                   record, compiled_release>>

\* intern(kind, payload), the optimistic INSERT: the unique constraint
\* refuses the row when another caller has stored the fingerprint since the
\* read, and the caller re-reads.
intern_insert(s) ==
    LET kind == storer[s].interning
        hash == hash_md5(content(s))
        row == [hash_md5 |-> hash, data |-> content(s)]
    IN
    /\ storer[s].pc = "insert"
    /\ IF kind = "data"
       THEN IF unique_data_hash_md5(hash)
            THEN /\ storer' = [storer EXCEPT ![s].pc = "lookup",
                                             ![s].retried = @ \cup {kind}]
                 /\ UNCHANGED data
            ELSE /\ data' = Append(data, row)
                 /\ storer' = intern_return(s, Len(data) + 1)
       ELSE UNCHANGED data
    /\ IF kind = "package_data"
       THEN IF unique_package_data_hash_md5(hash)
            THEN /\ storer' = [storer EXCEPT ![s].pc = "lookup",
                                             ![s].retried = @ \cup {kind}]
                 /\ UNCHANGED package_data
            ELSE /\ package_data' = Append(package_data, row)
                 /\ storer' = intern_return(s, Len(package_data) + 1)
       ELSE UNCHANGED package_data
    /\ UNCHANGED <<DEFAULT_STEPS, PATH, dbvars, published, loader, operator, worker, cli,
                   registry, collection_file_item, release, record,
                   compiled_release>>

\* The normalized row of storer s.
normalized_row(s) ==
    IF storer[s].kind = "compiled_release"
    THEN [collection_file_item |-> storer[s].item, data |-> storer[s].data]
    ELSE [collection_file_item |-> storer[s].item, data |-> storer[s].data,
          package_data |-> storer[s].package_data]

\* INSERT of the Release, Record or CompiledRelease row; the foreign key on
\* collection_file_item refuses it when the item is gone.
store_normalized(s) ==
    /\ storer[s].pc = "store"
    /\ IF storer[s].item \in DOMAIN collection_file_item
       THEN /\ storer' = [storer EXCEPT ![s].pc = "done"]
            /\ release' = IF storer[s].kind = "release"
                          THEN release \cup {normalized_row(s)} ELSE release
            /\ record' = IF storer[s].kind = "record"
                         THEN record \cup {normalized_row(s)} ELSE record
            /\ compiled_release' = IF storer[s].kind = "compiled_release"
                                   THEN compiled_release \cup {normalized_row(s)}
                                   ELSE compiled_release
       ELSE /\ storer' = [storer EXCEPT ![s].pc = "failed",
                                        ![s].error = "IntegrityError"]
            /\ UNCHANGED <<release, record, compiled_release>>
    /\ UNCHANGED <<DEFAULT_STEPS, PATH, dbvars, published, loader, operator, worker, cli,
                   registry, data, package_data, collection_file_item>>

store(s) ==
    \/ store_item(s)
    \/ intern_lookup(s)
    \/ intern_insert(s)
    \/ store_normalized(s)

\* on_delete=CASCADE of Collection.transform_from_collection: the collections
\* deleted with the collections cs are those derived from them, and so on.
derived(cs) ==
    cs \cup {d \in stored : collection[d].transform_from_collection_id \in cs}

RECURSIVE cascade_collections(_)
cascade_collections(cs) ==
    IF derived(cs) = cs THEN cs ELSE cascade_collections(derived(cs))

\* on_delete=CASCADE of CollectionFile.collection
cascade_files(cs) ==
    {f \in DOMAIN collection_file : collection_file[f].collection \in cs}

\* on_delete=CASCADE of CollectionFileItem.collection_file
cascade_items(fs) ==
    {i \in DOMAIN collection_file_item :
        collection_file_item[i].collection_file \in fs}

\* on_delete=CASCADE of the collection_file_item of a Release, a Record or a
\* CompiledRelease.
cascade_rows(rows, is) == {r \in rows : r.collection_file_item \in is}

\* The Data rows deleted with normalized rows: none, the foreign keys `data`
\* point from the normalized rows to Data, and a deletion follows a foreign
\* key from the row referred to to the rows that refer to it.
collect_data_referenced(rows) == {r.data : r \in rows}
collect_data(rows) == {}

\* The PackageData rows deleted with normalized rows: none, likewise.
collect_package_data(rows) == {}

\* The place of a deleted Data or PackageData row: its primary key is not
\* used again.
NoData == [hash_md5 |-> {}, data |-> << >>]

\* The function fn without the keys ks.
without(fn, ks) == [k \in DOMAIN fn \ ks |-> fn[k]]

\* purge: Collection.delete() of a collection marked for deletion, with the
\* rows the deletion cascades to.
purge(c) ==
    LET cs == cascade_collections({c})
        fs == cascade_files(cs)
        is == cascade_items(fs)
        rows == cascade_rows(release \cup record \cup compiled_release, is)
    IN
    /\ c \in stored
    /\ collection[c].deleted_at # 0
    /\ \A d \in cs : Blockers(Registry, d, LoadLockModeForUpdate) = {}
    /\ collection' = [d \in DOMAIN collection |->
                         IF d \in cs THEN NullCollection ELSE collection[d]]
    /\ collection_file' = without(collection_file, fs)
    /\ collection_file_step' = without(collection_file_step, fs)
    /\ collection_file_item' = without(collection_file_item, is)
    /\ release' = release \ rows
    /\ record' = record \ rows
    /\ compiled_release' = compiled_release \ rows
    /\ data' = [id \in DOMAIN data |->
                   IF id \in collect_data(rows) THEN NoData ELSE data[id]]
    /\ package_data' = [id \in DOMAIN package_data |->
                           IF id \in collect_package_data(release \cup record)
                           THEN NoData ELSE package_data[id]]
    /\ UNCHANGED <<DEFAULT_STEPS, PATH, row_lock, clock, published, loader, operator,
                   worker, cli, registry, storer>>

----------------------------------------------------------------------------
(* end-collection-store: EndCollectionStoreCLICommand.run_command *)

\* run_command_for_selecting_existing_collection(args): self.collection is the
\* stored collection the arguments name, as read now; the command ends if
\* there is none.
select_existing_collection(e) ==
    /\ cli[e].pc = "start"
    /\ \E database_id \in {1} :
          IF database_id \in DOMAIN collection
          THEN cli' = [cli EXCEPT ![e].pc = "selected",
                                  ![e].collection = collection[database_id]]
          ELSE cli' = [cli EXCEPT ![e].pc = "failed"]
    /\ UNCHANGED <<DEFAULT_STEPS, PATH, storevars, dbvars, published, loader, operator, worker,
                   registry>>

\* run_command: `if self.collection.store_end_at:`
always_open(c) == FALSE
already_ended(c) == c.store_end_at # 0

\* database.mark_collection_store_done(database_id)
mark_collection_store_done(database_id) ==
    [collection EXCEPT ![database_id].store_end_at = Now]

\* run_command, after the selection.
run_command(e) ==
    /\ cli[e].pc = "selected"
    /\ IF already_ended(cli[e].collection)
       THEN /\ cli' = [cli EXCEPT ![e].pc = "done", ![e].output = "Already Ended!"]
            /\ UNCHANGED <<collection, clock>>
       ELSE /\ Blockers(e, cli[e].collection.id, SaveLockMode) = {}
            /\ collection' = mark_collection_store_done(cli[e].collection.id)
            /\ clock' = Now
            /\ cli' = [cli EXCEPT ![e].pc = "done", ![e].output = "Store Ended!"]
    /\ UNCHANGED <<DEFAULT_STEPS, PATH, storevars, collection_file, collection_file_step, row_lock,
                   published, loader, operator, worker, registry>>

end_collection_store(e) ==
    \/ select_existing_collection(e)
    \/ run_command(e)

----------------------------------------------------------------------------
(* Specifications *)

\* The load and addstep commands over the store.
Next ==
    \/ \E l \in Loaders : load(l)
    \/ \E a \in Operators : addstep(a)

Spec == Init /\ [][Next]_vars

\* The same under fair scheduling: a command that can take its next
\* statement, because the lock it asks for is free or it asks for none, is not
\* held back forever.
Fairness ==
    /\ \A l \in Loaders : WF_vars(load(l))
    /\ \A a \in Operators : WF_vars(addstep(a))

FairSpec == Spec /\ Fairness

\* The load commands and the checker workers over the transport.
PipelineNext ==
    \/ \E l \in Loaders : load(l)
    \/ \E w \in Workers : checker(w)
    \/ \E w \in Workers : redeliver(w)

PipelineSpec == Init /\ [][PipelineNext]_vars

\* The load commands and the registry's operations.
RegistryNext ==
    \/ \E l \in Loaders : load(l)
    \/ \E c \in DOMAIN collection : soft_delete(c)

RegistrySpec == Init /\ [][RegistryNext]_vars

\* The load commands and the derivation of transform collections.
LineageNext ==
    \/ \E l \in Loaders : load(l)
    \/ create_transform_collection

LineageSpec == Init /\ [][LineageNext]_vars

\* The load commands and the end-collection-store commands.
CloseNext ==
    \/ \E l \in Loaders : load(l)
    \/ \E e \in Clis : end_collection_store(e)

CloseSpec == Init /\ [][CloseNext]_vars

\* The load commands alone, over paths of several files.
RunNext == \E l \in Loaders : load(l)

RunSpec == RunInit /\ [][RunNext]_vars

\* The store two load commands leave behind: `load --source s --upgrade` has
\* created collections 1 and 2, stored one file and closed both, and then
\* `load --source s --sample` has created collection 3, stored one file and
\* closed it.
Loaded ==
    LET first == [NullCollection EXCEPT !.id = 1, !.source_id = "s",
                                        !.data_version = DataVersion]
        upgraded == [first EXCEPT !.id = 2, !.transform_from_collection_id = 1,
                                  !.transform_type = "upgrade-1-0-to-1-1",
                                  !.store_end_at = 2]
        master == [first EXCEPT !.steps = <<"upgrade">>, !.store_end_at = 1]
        sample == [first EXCEPT !.id = 3, !.sample = TRUE, !.store_end_at = 3]
        file(c, id, steps) ==
            [collection |-> c, filename |-> id, errors |-> << >>,
             store_end_at |-> 0, tx |-> "", steps_seen |-> steps]
    IN
    /\ DEFAULT_STEPS = << >>
    /\ PATH = [l \in Loaders |-> 1]
    /\ collection = <<master, upgraded, sample>>
    /\ collection_file = (<<"l1", 1>> :> file(1, <<"l1", 1>>, <<"upgrade">>))
                          @@ (<<"l2", 1>> :> file(3, <<"l2", 1>>, << >>))
    /\ collection_file_step = (<<"l1", 1>> :> << >>) @@ (<<"l2", 1>> :> << >>)
    /\ row_lock = {}
    /\ clock = 3
    /\ published = SetToBag({
          message("loader", [collection_file_id |-> <<"l1", 1>>, step |-> NoValue]),
          message("loader", [collection_file_id |-> <<"l2", 1>>, step |-> NoValue])})
    /\ loader = [l \in Loaders |->
          IF l = "l1"
          THEN [pc |-> "done",
                options |-> [NoOptions EXCEPT !.source = "s", !.upgrade = TRUE],
                collection |-> master, upgraded_collection |-> upgraded, i |-> 1,
                collection_file |-> <<"l1", 1>>, exception |-> NoValue,
                error |-> NoValue]
          ELSE [pc |-> "done",
                options |-> [NoOptions EXCEPT !.source = "s", !.sample = TRUE],
                collection |-> sample, upgraded_collection |-> NullCollection,
                i |-> 1, collection_file |-> <<"l2", 1>>, exception |-> NoValue,
                error |-> NoValue]]

StoreInit ==
    /\ Loaded
    /\ operator = [a \in Operators |->
          [pc |-> "start", step |-> NoValue, source |-> NullCollection,
           added |-> FALSE, error |-> NoValue]]
    /\ worker = [w \in Workers |-> [pc |-> "idle", delivery_tag |-> NoValue]]
    /\ cli = [e \in Clis |->
          [pc |-> "start", collection |-> NullCollection, output |-> NoValue]]
    /\ registry = [transforms |-> 0, error |-> NoValue, conflicts |-> {}]
    /\ data = << >>
    /\ package_data = << >>
    /\ collection_file_item = << >>
    /\ release = {}
    /\ record = {}
    /\ compiled_release = {}
    /\ storer = [s \in Storers |->
          [pc |-> "idle", kind |-> NoValue, item |-> NoValue, payload |-> << >>,
           package |-> << >>, interning |-> NoValue, data |-> 0,
           package_data |-> 0, retried |-> {}, error |-> NoValue]]

\* The workers that store items and the registry's deletions, over the store
\* the load commands have filled.
StoreNext ==
    \/ \E s \in Storers : store(s)
    \/ \E c \in DOMAIN collection : soft_delete(c)
    \/ \E c \in DOMAIN collection : purge(c)

StoreSpec == StoreInit /\ [][StoreNext]_vars

\* The addstep command, run again and again over the store the load commands
\* have filled.
ReconfigureNext ==
    \/ \E a \in Operators : addstep(a)
    \/ \E a \in Operators : addstep_again(a)

ReconfigureSpec == StoreInit /\ [][ReconfigureNext]_vars

----------------------------------------------------------------------------
(* Vocabulary of the properties *)

\* The committed CollectionFileStep names of file f, in order of insertion.
pending_steps(f) ==
    LET rows == SelectSeq(collection_file_step[f], LAMBDA r : r.tx = "")
    IN  [k \in DOMAIN rows |-> rows[k].name]

\* The step names the transaction inserting file f has given it (while that
\* transaction is open).
steps_at_creation(f) ==
    LET rows == SelectSeq(collection_file_step[f],
                          LAMBDA r : r.tx = collection_file[f].tx)
    IN  [k \in DOMAIN rows |-> rows[k].name]

\* No transaction is open: every row is committed and no row lock is held.
AllCommitted ==
    /\ \A f \in DOMAIN collection_file : collection_file[f].tx = ""
    /\ \A f \in DOMAIN collection_file_step :
          \A k \in DOMAIN collection_file_step[f] : collection_file_step[f][k].tx = ""
    /\ row_lock = {}

\* The reconfigurations that committed a new stage.
Reconfigured == {a \in Operators : operator[a].pc = "done" /\ operator[a].added}

\* The files of the collection a reconfigured that were inserted before a's
\* new configuration was visible: pre-existing, or loaded concurrently.
FilesBefore(a) ==
    {f \in DOMAIN collection_file :
        /\ collection_file[f].collection = operator[a].source.id
        /\ operator[a].step \notin Range(collection_file[f].steps_seen)}

\* The processes p waits for in its current position.
WaitsFor(p) ==
    IF p \in Loaders
    THEN CASE loader[p].pc = "files" ->
                 Blockers(p, loader[p].collection.id, LoadLockMode)
           [] loader[p].pc \in {"steps", "close"} ->
                 Blockers(p, loader[p].collection.id, SaveLockMode)
           [] loader[p].pc = "close_upgraded" ->
                 Blockers(p, loader[p].upgraded_collection.id, SaveLockMode)
           [] OTHER -> {}
    ELSE IF operator[p].pc = "transaction"
         THEN Blockers(p, operator[p].source.id, SaveLockMode)
         ELSE {}

HoldsLock(p, c, mode) ==
    [holder |-> p, collection |-> c, mode |-> mode] \in row_lock

----------------------------------------------------------------------------
(* Properties *)

\* C1: once every transaction has committed, each file of the collection that
\* was inserted before the new stage was visible (pre-existing, or loaded
\* concurrently with the reconfiguration) is enqueued for the new stage exactly
\* once: none is omitted, none is enqueued twice.
C1_EnqueuedExactlyOnce ==
    AllCommitted =>
        \A a \in Reconfigured : \A f \in FilesBefore(a) :
            SeqCount(pending_steps(f), operator[a].step) = 1

\* C2: a load transaction that has inserted its file holds a shared lock (FOR
\* SHARE) on the collection's row until it commits.
C2_LoadHoldsSharedLock ==
    \A l \in Loaders :
        loader[l].pc = "transaction" =>
            HoldsLock(l, loader[l].collection.id, "SHARE")

\* C3: the stage list attached to a file at creation is the collection's
\* stage configuration visible to the inserting transaction, in order; so a
\* file inserted after a reconfiguration committed carries the new stage.
C3_CreatedWithVisibleConfiguration ==
    \A f \in DOMAIN collection_file :
        collection_file[f].tx # "" =>
            /\ steps_at_creation(f) = collection_file[f].steps_seen
            /\ \A a \in Reconfigured :
                  (/\ collection_file[f].collection = operator[a].source.id
                   /\ operator[a].step \in Range(collection_file[f].steps_seen))
                  => operator[a].step \in Range(steps_at_creation(f))

LiveMatch(options) ==
    \E c \in Range(collection) :
        /\ c.transform_type = ""
        /\ c.deleted_at = 0
        /\ c.source_id = options.source
        /\ c.data_version = DataVersion
        /\ c.sample = options.sample

\* The files and the job messages of load command l.
FilesOf(l) == {f \in DOMAIN collection_file : f[1] = l}
MessagesOf(l) ==
    {m \in BagToSet(published) :
        m.routing_key = "loader" /\ m.body.collection_file_id[1] = l}

\* C10: a load command that creates a collection whose identity is that of a
\* stored, non-deleted collection with empty transform type fails on the
\* conflict (IntegrityError): the step creates no collection, and the command
\* stores no file and publishes no job message, then or later.
C10_ConflictingCreateFails ==
    /\ [][\A l \in Loaders :
            (/\ loader[l].pc = "create"
             /\ loader'[l].pc # "create"
             /\ loader[l].options.collection = 0
             /\ LiveMatch(loader[l].options))
            => /\ loader'[l].pc = "failed"
               /\ loader'[l].exception = "IntegrityError"
               /\ collection' = collection]_vars
    /\ [](\A l \in Loaders :
            loader[l].exception = "IntegrityError"
            => /\ loader[l].pc = "failed"
               /\ loader[l].collection = NullCollection
               /\ FilesOf(l) = {}
               /\ MessagesOf(l) = {})

\* C10 witness: a load command has failed on the conflict while the collection
\* it conflicts with is stored and not deleted.
C10_Witness ==
    \E l \in Loaders :
        /\ loader[l].pc = "failed"
        /\ loader[l].exception = "IntegrityError"
        /\ LiveMatch(loader[l].options)
        /\ \E k \in Loaders \ {l} : FilesOf(k) # {}

\* C11: when create_master_collection is refused because a collection with the
\* identity asked for is stored, the command ends with a CommandError that
\* names that collection by its id and tells its state: being deleted if its
\* deleted_at is set (closed or not), else closed if its store_end_at is set,
\* else open, with the hint to load into it with --collection.
C11_ConflictReasonReported ==
    [][\A l \in Loaders :
          (loader[l].exception # "IntegrityError"
              /\ loader'[l].exception = "IntegrityError")
          => \E c \in DOMAIN collection :
                /\ collection[c].transform_type = ""
                /\ collection[c].source_id = loader[l].options.source
                /\ collection[c].data_version = DataVersion
                /\ collection[c].sample = loader[l].options.sample
                /\ loader'[l].error =
                      IF collection[c].deleted_at # 0 THEN being_deleted(c)
                      ELSE IF collection[c].store_end_at # 0 THEN closed(c)
                      ELSE open(c)]_vars

\* C12: whenever create_master_collection is asked for a new collection whose
\* (source_id, data_version, sample) is that of a stored collection with
\* deleted_at set, it is refused with IntegrityError and stores nothing.
C12_SoftDeletedStillConflicts ==
    [][\A l \in Loaders :
          (/\ loader[l].pc = "create"
           /\ loader'[l].pc # "create"
           /\ loader[l].options.collection = 0
           /\ \E c \in DOMAIN collection :
                 /\ collection[c].deleted_at # 0
                 /\ collection[c].transform_type = ""
                 /\ collection[c].source_id = loader[l].options.source
                 /\ collection[c].data_version = DataVersion
                 /\ collection[c].sample = loader[l].options.sample)
          => /\ loader'[l].pc = "failed"
             /\ loader'[l].exception = "IntegrityError"
             /\ collection' = collection]_vars

\* C12 witness: a create was refused by a collection that was soft-deleted
\* when the create was attempted.
C12_Witness ==
    \E x \in registry.conflicts :
        /\ x.collection.deleted_at # 0
        /\ loader[x.caller].pc = "failed"
        /\ loader[x.caller].exception = "IntegrityError"

\* C13: end-collection-store run on a collection that is open when the command
\* selects it sets the collection's store_end_at, changes nothing else and
\* prints "Store Ended!"; run on a collection that is closed already it
\* changes nothing in the store, so store_end_at keeps its value, and prints
\* "Already Ended!".
C13_CloseIsIdempotent ==
    [][\A e \in Clis :
          (cli[e].pc = "selected" /\ cli'[e].pc = "done")
          => LET c == cli[e].collection.id
             IN  IF cli[e].collection.store_end_at # 0
                 THEN /\ collection' = collection
                      /\ cli'[e].output = "Already Ended!"
                 ELSE /\ collection'[c].store_end_at # 0
                      /\ collection' =
                            [collection EXCEPT
                                ![c].store_end_at = collection'[c].store_end_at]
                      /\ cli'[e].output = "Store Ended!"]_vars

\* C13 witness: one run of the command has closed the collection, and a later
\* run, which found it closed, has ended with "Already Ended!", the collection
\* keeping the time of the first.
C13_Witness ==
    \E e1, e2 \in Clis :
        /\ cli[e1].pc = "done" /\ cli[e1].output = "Store Ended!"
        /\ cli[e2].pc = "done" /\ cli[e2].output = "Already Ended!"
        /\ cli[e2].collection.store_end_at # 0
        /\ collection[cli[e2].collection.id].store_end_at
              = cli[e2].collection.store_end_at

\* C14: no stored collection has exactly one of transform_from_collection_id
\* and transform_type set.
C14_LineageAllOrNothing ==
    \A c \in DOMAIN collection :
        (collection[c].transform_from_collection_id # 0)
            <=> (collection[c].transform_type # "")

\* C14 witness: a load with --upgrade has stored its upgraded collection and
\* closed it, and createTransformCollection has derived a collection and has
\* refused a call with one of the two lineage fields only.
C14_Witness ==
    /\ \E l \in Loaders :
          /\ loader[l].upgraded_collection.id \in DOMAIN collection
          /\ loader[l].pc = "done"
    /\ registry.transforms > 0
    /\ registry.error = "ValidationError"

\* Collections i and j have the same (source_id, data_version, sample).
SameIdentity(i, j) ==
    /\ collection[i].source_id = collection[j].source_id
    /\ collection[i].data_version = collection[j].data_version
    /\ collection[i].sample = collection[j].sample

\* C15: no two stored collections with empty transform_type have the same
\* (source_id, data_version, sample); collections with a transform_type may
\* share it.
C15_UniqueAmongNonTransforms ==
    \A i, j \in DOMAIN collection :
        (/\ i # j
         /\ collection[i].transform_type = ""
         /\ collection[j].transform_type = "")
        => ~SameIdentity(i, j)

\* C15 witness: two loads have asked for the same new collection, one has
\* stored it and the other was refused, and a transform collection with the
\* identity of its source is stored beside it.
C15_Witness ==
    /\ \E k, l \in Loaders :
          /\ k # l
          /\ loader[k].collection.id \in DOMAIN collection
          /\ loader[k].options.collection = 0
          /\ loader[l].exception = "IntegrityError"
          /\ loader[l].options.source = loader[k].options.source
          /\ loader[l].options.sample = loader[k].options.sample
    /\ \E i, j \in DOMAIN collection :
          /\ i # j
          /\ collection[i].transform_type = ""
          /\ collection[j].transform_type # ""
          /\ SameIdentity(i, j)

Interned(kind) == {s \in Storers : storer[s][kind] # 0}

\* The payload storer s interns as `kind`.
Interning(s, kind) ==
    IF kind = "data" THEN storer[s].payload ELSE storer[s].package

\* C17: neither Data nor PackageData holds two rows of the same hash_md5;
\* every reference intern has returned is to the stored row of the
\* fingerprint of the payload it was called with, so that two calls get the
\* same row exactly when their payloads have the same fingerprint, whatever
\* the interleaving of the callers.
C17_InternDeduplicates ==
    \A kind \in {"data", "package_data"} :
        /\ \A i, j \in DOMAIN table(kind) :
              table(kind)[i].hash_md5 = table(kind)[j].hash_md5 => i = j
        /\ \A s \in Interned(kind) :
              /\ storer[s][kind] \in DOMAIN table(kind)
              /\ table(kind)[storer[s][kind]].hash_md5
                    = hash_md5(Interning(s, kind))
        /\ \A s, t \in Interned(kind) :
              (storer[s][kind] = storer[t][kind])
                 <=> (hash_md5(Interning(s, kind)) = hash_md5(Interning(t, kind)))

\* Two workers raced to intern item payloads that differ and have the same
\* fingerprint: the one that lost the insertion re-read, and both hold the
\* same Data row; and they hold the same PackageData row after a second race.
C17_Witness ==
    \E s, t \in Storers :
        /\ s # t
        /\ storer[s].payload # storer[t].payload
        /\ storer[s].data # 0
        /\ storer[s].data = storer[t].data
        /\ storer[s].package_data # 0
        /\ storer[s].package_data = storer[t].package_data
        /\ storer[s].retried = {}
        /\ storer[t].retried = {"data", "package_data"}

\* The normalized rows of every kind, and those with a package.
normalized == release \cup record \cup compiled_release
packaged == release \cup record

\* Every reference of the store is to a row the store holds.
ReferencesHeld ==
    /\ \A r \in normalized :
          /\ r.collection_file_item \in DOMAIN collection_file_item
          /\ r.data \in DOMAIN data
          /\ data[r.data] # NoData
    /\ \A r \in packaged :
          /\ r.package_data \in DOMAIN package_data
          /\ package_data[r.package_data] # NoData
    /\ \A i \in DOMAIN collection_file_item :
          collection_file_item[i].collection_file \in DOMAIN collection_file
    /\ \A f \in DOMAIN collection_file : collection_file[f].collection \in stored

\* No step deletes or changes a Data or a PackageData row.
ContentKept ==
    /\ \A id \in DOMAIN data : id \in DOMAIN data' /\ data'[id] = data[id]
    /\ \A id \in DOMAIN package_data :
          id \in DOMAIN package_data' /\ package_data'[id] = package_data[id]

\* The files, the items and the normalized rows of collection c before a step
\* are not in the store after it.
RowsRemoved(c) ==
    LET fs == cascade_files({c})
        is == cascade_items(fs)
    IN  /\ fs \cap DOMAIN collection_file' = {}
        /\ is \cap DOMAIN collection_file_item' = {}
        /\ cascade_rows(normalized, is)
              \cap (release' \cup record' \cup compiled_release') = {}

\* C18: no Data or PackageData row is ever deleted, so none is deleted while
\* a normalized row refers to it and every reference stays valid; the
\* deletion of a collection removes its files, their items and their
\* normalized rows, and leaves every Data and PackageData row in place.
C18_ContentOutlivesCollections ==
    /\ []ReferencesHeld
    /\ [][/\ ContentKept
          /\ \A c \in stored : c \notin stored' => RowsRemoved(c)]_vars

\* A collection has been purged with the normalized row of one worker, whose
\* Data and PackageData rows the normalized row of another worker, in a
\* collection that is still stored, refers to.
C18_Witness ==
    \E s, t \in Storers :
        /\ storer[s].pc = "done"
        /\ storer[s].item \notin DOMAIN collection_file_item
        /\ storer[s].kind # "compiled_release"
        /\ storer[t].pc = "done"
        /\ normalized_row(t) \in packaged
        /\ storer[t].data = storer[s].data
        /\ storer[t].package_data = storer[s].package_data
        /\ data[storer[s].data].hash_md5 = hash_md5(storer[s].payload)
        /\ package_data[storer[s].package_data].hash_md5
              = hash_md5(storer[s].package)
        /\ DOMAIN collection # stored

\* C19: a load command that has completed has closed its collection (set its
\* store_end_at and saved it) if and only if it was run without --keep-open.
C19_KeepOpenLeavesCollectionOpen ==
    \A l \in Loaders :
        loader[l].pc = "done" =>
            IF loader[l].options.keep_open
            THEN loader[l].collection.store_end_at = 0
            ELSE /\ loader[l].collection.store_end_at # 0
                 /\ collection[loader[l].collection.id].store_end_at # 0

\* The stored files of collection c, committed or not.
files_of_collection(c) ==
    {f \in DOMAIN collection_file : collection_file[f].collection = c}

JobMessages(f) ==
    {m \in BagToSet(published) :
        m.routing_key = "loader" /\ m.body.collection_file_id = f}

\* The number of job messages the load command has published for file f.
JobCount(f) ==
    BagCardinality([m \in JobMessages(f) |-> CopiesIn(m, published)])

\* The files load command l has stored and gone on from: the i first of its
\* run.
Stored(l) == {f \in FilesOf(l) : f[2] <= loader[l].i}

\* C21: the load command has published exactly one job message, carrying the
\* file's identifier, for each CollectionFile it has stored and gone on from,
\* hence for every file of a command that has ended; it has published none
\* for the file whose transaction it is still in, and every job message
\* carries the identifier of a stored file.
C21_OneJobMessagePerFile ==
    /\ \A l \in Loaders :
          /\ \A f \in FilesOf(l) :
                JobCount(f) = IF f \in Stored(l) THEN 1 ELSE 0
          /\ loader[l].pc \in {"done", "failed", "close", "close_upgraded"}
                => FilesOf(l) = Stored(l)
    /\ \A m \in BagToSet(published) :
          m.routing_key = "loader"
             => m.body.collection_file_id \in DOMAIN collection_file

\* A load command has ended after storing two files, each with one job
\* message, while another has stored one file and failed on its second.
C21_Witness ==
    \E l, k \in Loaders :
        /\ loader[l].pc = "done"
        /\ Cardinality(FilesOf(l)) = 2
        /\ \A f \in FilesOf(l) : JobCount(f) = 1
        /\ loader[k].pc = "failed"
        /\ Cardinality(FilesOf(k)) = 1
        /\ \A f \in FilesOf(k) : JobCount(f) = 1

\* The rows of file f for `step`, committed or not, and the messages that
\* enqueue f for `step`.
StepRows(f, step) ==
    SeqCount([k \in DOMAIN collection_file_step[f] |->
                 collection_file_step[f][k].name], step)
StepMessages(f, step) ==
    BagCardinality([m \in {n \in BagToSet(published) :
                              /\ n.routing_key = "addstep"
                              /\ n.body.collection_file_id = f
                              /\ n.body.step = step}
                    |-> CopiesIn(m, published)])

Visible(f) ==
    /\ f \in DOMAIN collection_file
    /\ collection_file[f].tx = ""
    /\ \A k \in DOMAIN DEFAULT_STEPS :
          /\ k \in DOMAIN collection_file_step[f]
          /\ collection_file_step[f][k] = [name |-> DEFAULT_STEPS[k], tx |-> ""]

\* C23: the load command publishes the job message of a file when the
\* transaction that inserted the file and its step rows has committed (it
\* holds no lock and has no uncommitted row at that step); so every job
\* message in the transport, and every one a worker has received, is for a
\* file that is committed with all the step rows the command gave it.
C23_PublishedAfterCommit ==
    /\ [][\A l \in Loaders :
            loader'[l].i # loader[l].i
            => /\ \A f \in FilesOf(l) : collection_file[f].tx = ""
               /\ \A k \in row_lock : k.holder # l
               /\ Visible(loader[l].collection_file)]_vars
    /\ [](\A m \in BagToSet(published) :
            m.routing_key = "loader" => Visible(m.body.collection_file_id))
    /\ [](\A w \in Workers :
            worker[w].pc = "received"
            => Visible(worker[w].delivery_tag.collection_file_id))

\* A worker has received the job message of a file that has its two step
\* rows, while the other load command is inside the transaction of its file.
C23_Witness ==
    \E w \in Workers : \E l \in Loaders :
        /\ worker[w].pc = "received"
        /\ Len(DEFAULT_STEPS) = 2
        /\ pending_steps(worker[w].delivery_tag.collection_file_id) = DEFAULT_STEPS
        /\ loader[l].pc = "transaction"
        /\ JobCount(loader[l].collection_file) = 0

\* The load commands that have ended on a rejected file: they had resolved
\* their collection and raised CommandError in the loop over the files.
Rejected ==
    {l \in Loaders : /\ loader[l].error = "CommandError"
                     /\ loader[l].collection.id # 0}

\* The load commands that have set store_end_at of collection c.
ClosedBy(c) ==
    {l \in Loaders :
        \/ loader[l].collection.id = c /\ loader[l].collection.store_end_at # 0
        \/ /\ loader[l].upgraded_collection.id = c
           /\ loader[l].upgraded_collection.store_end_at # 0}

\* C24: the step at which a file is rejected writes nothing (no
\* CollectionFile, no step row, no message, no lock, no change of the
\* collection) and ends the command; the files the command stored before
\* stay committed, each with its job message, there is no row and no message
\* for the rejected file, and the command never sets store_end_at of its
\* collection nor of the upgraded one.
C24_RejectedFileRollsBack ==
    /\ [][\A l \in Loaders :
            (loader[l].pc = "files" /\ loader'[l].pc \notin {"files", "transaction"})
            => /\ loader'[l].pc = "failed"
               /\ loader'[l].error = "CommandError"
               /\ collection' = collection
               /\ collection_file' = collection_file
               /\ collection_file_step' = collection_file_step
               /\ row_lock' = row_lock
               /\ published' = published]_vars
    /\ [][\A l \in Loaders : loader[l].pc = "failed" => loader'[l] = loader[l]]_vars
    /\ [](\A l \in Rejected :
            /\ loader[l].pc = "failed"
            /\ Cardinality(FilesOf(l)) = loader[l].i
            /\ \A f \in FilesOf(l) : f \in Stored(l) /\ Visible(f) /\ JobCount(f) = 1
            /\ <<l, loader[l].i + 1>> \notin DOMAIN collection_file
            /\ <<l, loader[l].i + 1>> \notin DOMAIN collection_file_step
            /\ JobCount(<<l, loader[l].i + 1>>) = 0
            /\ loader[l].collection.store_end_at = 0
            /\ loader[l].upgraded_collection.store_end_at = 0
            /\ l \notin ClosedBy(loader[l].collection.id)
            /\ collection[loader[l].collection.id].store_end_at # 0
                  => ClosedBy(loader[l].collection.id) # {})

\* A load command given two files has stored the first, which is committed
\* and has its job message, and has ended on the second; the collection it
\* created, and the upgraded one, are open.
C24_Witness ==
    \E l \in Rejected :
        /\ PATH[l] = 2
        /\ loader[l].i = 1
        /\ loader[l].options.collection = 0
        /\ loader[l].options.upgrade
        /\ Visible(<<l, 1>>)
        /\ JobCount(<<l, 1>>) = 1
        /\ collection[loader[l].collection.id].store_end_at = 0
        /\ collection[loader[l].upgraded_collection.id].store_end_at = 0

\* The commands that are inside a transaction, and those that have ended.
InTransaction ==
    {l \in Loaders : loader[l].pc = "transaction"}
        \cup {a \in Operators : operator[a].pc \in {"select", "commit"}}
Ended ==
    {l \in Loaders : loader[l].pc \in {"done", "failed"}}
        \cup {a \in Operators : operator[a].pc \in {"done", "failed"}}

----------------------------------------------------------------------------
(* Properties of the stage worker, under PipelineSpec *)

\* The stage the checker works on.
CheckerStep == "check"

\* The job messages the checker has acknowledged.
Acked ==
    {m \in BagToSet(published) : m.routing_key \in consume_keys /\ m.state = "acked"}

\* The number of next-stage messages the checker has published.
NextStageCount == CopiesIn(message(worker_name, [dataset_id |-> 1]), published)

\* The file a job message is about.
FileOf(m) == m.body.collection_file_id

\* C6: once the worker has succeeded on (acknowledged) a file's job message,
\* its own stage is gone from the file's pending list; if the list is empty the
\* file's store_end_at is set, and only then; and, while no worker is at work
\* or has failed, one next-stage message has been published per succeeded
\* message whose file still has pending stages, and none for the others.
C6_SuccessAdvancesPending ==
    /\ \A m \in Acked :
          /\ CheckerStep \notin Range(pending_steps(FileOf(m)))
          /\ pending_steps(FileOf(m)) = << >>
                => collection_file[FileOf(m)].store_end_at # 0
    /\ \A f \in DOMAIN collection_file :
          collection_file[f].store_end_at # 0 => pending_steps(f) = << >>
    /\ (\A w \in Workers : worker[w].pc = "idle")
          => NextStageCount =
                Cardinality({m \in Acked : pending_steps(FileOf(m)) # << >>})

\* C7: when the worker has failed on a job message, the file's pending list is
\* as it was created, the failure is recorded in the file's errors, no
\* next-stage message is published for the message, and the message is not
\* acknowledged.
C7_FailureRecorded ==
    \A w \in Workers :
        worker[w].pc = "exited" =>
            LET f == worker[w].delivery_tag.collection_file_id
            IN  /\ pending_steps(f) = DEFAULT_STEPS
                /\ collection_file[f].errors # << >>
                /\ NextStageCount = Cardinality(Acked)
                /\ \A m \in Acked : m.body # worker[w].delivery_tag

\* C8: after a worker has failed on one job message, the job messages of
\* other files that are ready still have a worker of the stage to consume
\* and process them.
C8_OtherFilesStillProcessed ==
    \A w \in Workers :
        worker[w].pc = "exited" =>
            \A m \in ready :
                m.body # worker[w].delivery_tag
                => \E v \in Workers : worker[v].pc # "exited"

\* C9: the acknowledgment is the last effect of handling a message: every
\* acknowledged message had its next-stage message published before, a worker
\* at work on a message holds it unacknowledged, and a worker that failed before
\* acknowledging has left its message unacknowledged.
C9_AckIsLast ==
    /\ Cardinality(Acked) <= NextStageCount
    /\ \A w \in Workers :
          worker[w].pc \in {"received", "published"} => unacked(w) # {}
    /\ \A w \in Workers :
          worker[w].pc = "exited" =>
              \A m \in Acked :
                  m.body = worker[w].delivery_tag => m.consumer # w

\* C9 witness: the worker has acknowledged one message and then failed, before
\* acknowledging, on another, which is unacknowledged.
C9_Witness ==
    \E w \in Workers :
        /\ worker[w].pc = "exited"
        /\ unacked(w) # {}
        /\ \E m \in Acked : m.consumer = w

====
